---- MODULE Spec2Model ----
(***************************************************************************)
(* Binary tree, binary search tree and AVL tree of trees.hh as a state     *)
(* machine.  Nodes live in a heap (a sequence of node records, indexed by  *)
(* allocation order); a shared_ptr<Node> or a locked weak_ptr<Node> is an  *)
(* index into the heap and nullptr is NIL.  A run drives one object, a     *)
(* BinarySearchTree<int> or an AVLTree<int>, through its public members;   *)
(* an AVLTree is filled through AVLTree::insert, which hides the inherited *)
(* insert.                                                                 *)
(***************************************************************************)
EXTENDS Integers, Sequences, FiniteSets

\* Bounds of the model.
MaxNodes == 5      \* at most this many insertions in one run
MaxKey == 3        \* keys are drawn from 1..MaxKey
MaxLayout == 5     \* a breadth-first layout has at most this many elements
MaxAvlNodes == 7   \* an AVLTree is constructed from at most this many keys
MaxCap == 3        \* an ArrayQueue is constructed with capacity 0..MaxCap
MaxEnqueued == 5   \* at most this many elements are enqueued between clears

Keys == 1..MaxKey

NIL == 0

VARIABLES
    m_root,     \* BinaryTree::m_root
    heap,       \* the nodes made so far: m_key, m_left, m_right, m_parent
    status,     \* "running", or "crashed" once the process has died
    ret,        \* the last public call: its name, argument, exception, result
    kind,       \* the class of the object: "BinarySearchTree" or "AVLTree"
    inserted,   \* number of insert calls that returned
    removed,    \* number of remove calls that found their key
    array_queue,    \* the ArrayQueue object: arr, capacity, f, r
    cap,            \* the capacity the ArrayQueue was constructed with
    enqueued,   \* the elements enqueued since construction or the last clear
    dequeued    \* the elements dequeue has returned since then

queue_vars == <<array_queue, cap, enqueued, dequeued>>

vars == <<m_root, heap, status, ret, kind, inserted, removed, queue_vars>>

\* A program that works on a tree has no ArrayQueue.
NoQueue ==
    /\ array_queue = 0
    /\ cap = 0
    /\ enqueued = <<>>
    /\ dequeued = <<>>

Max(a, b) == IF a >= b THEN a ELSE b

\* struct Node: a fresh node holds its key and three null links.
Node(x) == [m_key |-> x, m_left |-> NIL, m_right |-> NIL, m_parent |-> NIL]

\* The heap slot of a node that has been destroyed (its last shared_ptr is
\* gone): nothing of it can be read any more.
Destroyed == [m_key |-> NIL, m_left |-> NIL, m_right |-> NIL, m_parent |-> NIL]

\* The tree an operation works on: the root, the heap, whether the
\* operation has dereferenced a null pointer on the way, and the rotations
\* it has performed, in order.
Tree(r, h) == [m_root |-> r, heap |-> h, ub |-> FALSE, rot |-> <<>>]

\* One rotation: which of the two, and the node it was called on.
Rotation(name, x) == [op |-> name, x |-> x]

----------------------------------------------------------------------------
\* BinaryTree: size, height, in-order traversal

RECURSIVE size(_, _)
size(h, node) ==
    IF node = NIL THEN 0
    ELSE size(h, h[node].m_left) + size(h, h[node].m_right) + 1

RECURSIVE height(_, _)
height(h, node) ==
    IF node = NIL THEN -1
    ELSE Max(height(h, h[node].m_left), height(h, h[node].m_right)) + 1

\* The keys handed to the callback, in call order.
RECURSIVE in_order(_, _)
in_order(h, node) ==
    IF node = NIL THEN <<>>
    ELSE in_order(h, h[node].m_left) \o <<h[node].m_key>>
             \o in_order(h, h[node].m_right)

RECURSIVE pre_order(_, _)
pre_order(h, node) ==
    IF node = NIL THEN <<>>
    ELSE <<h[node].m_key>> \o pre_order(h, h[node].m_left)
             \o pre_order(h, h[node].m_right)

RECURSIVE post_order(_, _)
post_order(h, node) ==
    IF node = NIL THEN <<>>
    ELSE post_order(h, h[node].m_left) \o post_order(h, h[node].m_right)
             \o <<h[node].m_key>>

\* std::stack as a sequence, the top at the end.
Top(stk) == stk[Len(stk)]
Pop(stk) == SubSeq(stk, 1, Len(stk) - 1)
Push(stk, nd) == Append(stk, nd)
PushIf(stk, nd) == IF nd # NIL THEN Append(stk, nd) ELSE stk

\* The loop of pre_order_iter with the two pushes exchanged.
RECURSIVE pre_order_iter_loop_left_first(_, _, _)
pre_order_iter_loop_left_first(h, stk, out) ==
    IF stk = <<>> THEN out
    ELSE LET nd == Top(stk)
             s1 == PushIf(Pop(stk), h[nd].m_left)
             s2 == PushIf(s1, h[nd].m_right)
         IN  pre_order_iter_loop_left_first(h, s2, Append(out, h[nd].m_key))

\* The while loop of pre_order_iter: pop, visit, push right, push left.
RECURSIVE pre_order_iter_loop(_, _, _)
pre_order_iter_loop(h, stk, out) ==
    IF stk = <<>> THEN out
    ELSE LET nd == Top(stk)
             s1 == PushIf(Pop(stk), h[nd].m_right)
             s2 == PushIf(s1, h[nd].m_left)
         IN  pre_order_iter_loop(h, s2, Append(out, h[nd].m_key))

pre_order_iter(h, node) ==
    IF node = NIL THEN <<>> ELSE pre_order_iter_loop(h, <<node>>, <<>>)

\* The loop of in_order_iter visiting a node when it is pushed.
RECURSIVE in_order_iter_loop_visit_on_push(_, _, _, _)
in_order_iter_loop_visit_on_push(h, stk, nd, out) ==
    IF stk = <<>> /\ nd = NIL THEN out
    ELSE IF nd # NIL THEN
        in_order_iter_loop_visit_on_push(h, Push(stk, nd), h[nd].m_left,
                                         Append(out, h[nd].m_key))
    ELSE
        in_order_iter_loop_visit_on_push(h, Pop(stk), h[Top(stk)].m_right,
                                         out)

\* The while loop of in_order_iter.
RECURSIVE in_order_iter_loop(_, _, _, _)
in_order_iter_loop(h, stk, nd, out) ==
    IF stk = <<>> /\ nd = NIL THEN out
    ELSE IF nd # NIL THEN
        in_order_iter_loop(h, Push(stk, nd), h[nd].m_left, out)
    ELSE
        in_order_iter_loop(h, Pop(stk), h[Top(stk)].m_right,
                           Append(out, h[Top(stk)].m_key))

in_order_iter(h, node) ==
    IF node = NIL THEN <<>> ELSE in_order_iter_loop(h, <<>>, node, <<>>)

\* The first loop of post_order_iter_twostacks with the two pushes
\* exchanged.
RECURSIVE twostacks_fill_right_first(_, _, _)
twostacks_fill_right_first(h, stk1, stk2) ==
    IF stk1 = <<>> THEN stk2
    ELSE LET nd == Top(stk1)
             s1 == PushIf(Pop(stk1), h[nd].m_right)
             s2 == PushIf(s1, h[nd].m_left)
         IN  twostacks_fill_right_first(h, s2, Push(stk2, nd))

\* The first while loop of post_order_iter_twostacks: stk2 when stk1 is
\* empty.
RECURSIVE twostacks_fill(_, _, _)
twostacks_fill(h, stk1, stk2) ==
    IF stk1 = <<>> THEN stk2
    ELSE LET nd == Top(stk1)
             s1 == PushIf(Pop(stk1), h[nd].m_left)
             s2 == PushIf(s1, h[nd].m_right)
         IN  twostacks_fill(h, s2, Push(stk2, nd))

\* The second while loop: visit the top of stk2 and pop it.
RECURSIVE twostacks_drain(_, _, _)
twostacks_drain(h, stk2, out) ==
    IF stk2 = <<>> THEN out
    ELSE twostacks_drain(h, Pop(stk2), Append(out, h[Top(stk2)].m_key))

post_order_iter_twostacks(h, node) ==
    IF node = NIL THEN <<>>
    ELSE twostacks_drain(h, twostacks_fill(h, <<node>>, <<>>), <<>>)

\* The while loop of post_order_iter_onestack; last is the node visited last.
RECURSIVE onestack_loop(_, _, _, _, _)
onestack_loop(h, stk, nd, last, out) ==
    IF stk = <<>> /\ nd = NIL THEN out
    ELSE IF nd # NIL THEN
        onestack_loop(h, Push(stk, nd), h[nd].m_left, last, out)
    ELSE LET top == Top(stk) IN
        IF h[top].m_right = NIL \/ last = h[top].m_right
        THEN onestack_loop(h, Pop(stk), NIL, top, Append(out, h[top].m_key))
        ELSE onestack_loop(h, stk, h[top].m_right, last, out)

post_order_iter_onestack(h, node) ==
    IF node = NIL THEN <<>> ELSE onestack_loop(h, <<>>, node, NIL, <<>>)

\* The while loop of bfs; the queue's front is the head of the sequence.
\* The loop of bfs that pushes the left child in place of the right one.
RECURSIVE bfs_loop_left_twice(_, _, _)
bfs_loop_left_twice(h, child_queue, out) ==
    IF child_queue = <<>> THEN out
    ELSE LET nd == Head(child_queue)
             q1 == PushIf(Tail(child_queue), h[nd].m_left)
             q2 == PushIf(q1, h[nd].m_left)
         IN  bfs_loop_left_twice(h, q2, Append(out, h[nd].m_key))

RECURSIVE bfs_loop(_, _, _)
bfs_loop(h, child_queue, out) ==
    IF child_queue = <<>> THEN out
    ELSE LET nd == Head(child_queue)
             q1 == PushIf(Tail(child_queue), h[nd].m_left)
             q2 == PushIf(q1, h[nd].m_right)
         IN  bfs_loop(h, q2, Append(out, h[nd].m_key))

bfs(h, node) ==
    IF node = NIL THEN <<>> ELSE bfs_loop(h, <<node>>, <<>>)

----------------------------------------------------------------------------
\* BinaryTree(const vector<optional<T>>&): construction from a breadth-first
\* layout

nullopt == 0

\* The for loop with the roles of odd and even indices exchanged.
RECURSIVE ctor_loop_right_first(_, _, _, _, _)
ctor_loop_right_first(t, tree_vec, i, child_queue, node) ==
    IF i >= Len(tree_vec) THEN t
    ELSE
        LET e == tree_vec[i + 1]
            nd == IF i % 2 = 1 THEN Head(child_queue) ELSE node
            q == IF i % 2 = 1 THEN Tail(child_queue) ELSE child_queue
            c == Len(t.heap) + 1
            made == Append(t.heap, [Node(e) EXCEPT !.m_parent = nd])
            t1 == IF nd = NIL THEN [t EXCEPT !.ub = TRUE]
                  ELSE IF i % 2 = 0 THEN
                      IF e = nullopt THEN [t EXCEPT !.heap[nd].m_left = NIL]
                      ELSE [t EXCEPT !.heap = [made EXCEPT ![nd].m_left = c]]
                  ELSE
                      IF e = nullopt THEN [t EXCEPT !.heap[nd].m_right = NIL]
                      ELSE [t EXCEPT !.heap = [made EXCEPT ![nd].m_right = c]]
            pushed == IF nd = NIL THEN NIL
                      ELSE IF i % 2 = 0 THEN t1.heap[nd].m_left
                      ELSE t1.heap[nd].m_right
        IN  ctor_loop_right_first(t1, tree_vec, i + 1, Append(q, pushed), nd)

\* The for loop of the constructor, i being the C++ index of the element
\* (tree_vec[i] there is tree_vec[i + 1] here).  An odd i pops the next
\* queue entry into node; child_queue.push(node -> m_left) and
\* child_queue.push(node -> m_right) dereference node without a null test:
\* with an absent entry that is a null dereference, recorded in ub, after
\* which the loop goes on as if the read had given nullptr.
RECURSIVE ctor_loop(_, _, _, _, _)
ctor_loop(t, tree_vec, i, child_queue, node) ==
    IF i >= Len(tree_vec) THEN t
    ELSE
        LET e == tree_vec[i + 1]
            nd == IF i % 2 = 1 THEN Head(child_queue) ELSE node
            q == IF i % 2 = 1 THEN Tail(child_queue) ELSE child_queue
            c == Len(t.heap) + 1
            made == Append(t.heap, [Node(e) EXCEPT !.m_parent = nd])
            t1 == IF nd = NIL THEN [t EXCEPT !.ub = TRUE]
                  ELSE IF i % 2 = 1 THEN
                      IF e = nullopt THEN [t EXCEPT !.heap[nd].m_left = NIL]
                      ELSE [t EXCEPT !.heap = [made EXCEPT ![nd].m_left = c]]
                  ELSE
                      IF e = nullopt THEN [t EXCEPT !.heap[nd].m_right = NIL]
                      ELSE [t EXCEPT !.heap = [made EXCEPT ![nd].m_right = c]]
            pushed == IF nd = NIL THEN NIL
                      ELSE IF i % 2 = 1 THEN t1.heap[nd].m_left
                      ELSE t1.heap[nd].m_right
        IN  ctor_loop(t1, tree_vec, i + 1, Append(q, pushed), nd)

\* The constructor without the test of the first element.
BinaryTree_tests_empty_only(tree_vec) ==
    IF tree_vec = <<>> THEN Tree(NIL, <<>>)
    ELSE ctor_loop(Tree(1, <<Node(tree_vec[1])>>), tree_vec, 1, <<1>>, NIL)

BinaryTree(tree_vec) ==
    IF tree_vec = <<>> \/ tree_vec[1] = nullopt THEN Tree(NIL, <<>>)
    ELSE ctor_loop(Tree(1, <<Node(tree_vec[1])>>), tree_vec, 1, <<1>>, NIL)

----------------------------------------------------------------------------
\* BinarySearchTree: the protected node-level algorithms

RECURSIVE search(_, _, _)
search(h, node, x) ==
    IF node = NIL \/ x = h[node].m_key THEN node
    ELSE IF x < h[node].m_key THEN search(h, h[node].m_left, x)
    ELSE search(h, h[node].m_right, x)

\* minimum that goes down one level only.
minimum_one_level(h, nd) ==
    IF nd # NIL /\ h[nd].m_left # NIL THEN h[nd].m_left ELSE nd

RECURSIVE minimum(_, _)
minimum(h, nd) ==
    IF nd # NIL /\ h[nd].m_left # NIL THEN minimum(h, h[nd].m_left) ELSE nd

RECURSIVE maximum(_, _)
maximum(h, nd) ==
    IF nd # NIL /\ h[nd].m_right # NIL THEN maximum(h, h[nd].m_right) ELSE nd

\* The climb of successor that stops at the first parent.
successor_climb_one_level(h, nd, par) == par

\* The while loop of successor: climb while nd is the right child of par.
RECURSIVE successor_climb(_, _, _)
successor_climb(h, nd, par) ==
    IF par # NIL /\ nd = h[par].m_right
    THEN successor_climb(h, par, h[par].m_parent)
    ELSE par

successor(h, node) ==
    IF node = NIL THEN NIL
    ELSE IF h[node].m_right # NIL THEN minimum(h, h[node].m_right)
    ELSE successor_climb(h, node, h[node].m_parent)

\* The while loop of predecessor: climb while nd is the left child of par.
RECURSIVE predecessor_climb(_, _, _)
predecessor_climb(h, nd, par) ==
    IF par # NIL /\ nd = h[par].m_left
    THEN predecessor_climb(h, par, h[par].m_parent)
    ELSE par

predecessor(h, node) ==
    IF node = NIL THEN NIL
    ELSE IF h[node].m_left # NIL THEN maximum(h, h[node].m_left)
    ELSE predecessor_climb(h, node, h[node].m_parent)

\* iter_insert_descend with the comparison turned round: the descent goes
\* left for the larger keys.
RECURSIVE iter_insert_descend_reversed(_, _, _, _)
iter_insert_descend_reversed(h, par_nd, cur_nd, x) ==
    IF cur_nd = NIL THEN par_nd
    ELSE IF x > h[cur_nd].m_key
         THEN iter_insert_descend_reversed(h, cur_nd, h[cur_nd].m_left, x)
         ELSE iter_insert_descend_reversed(h, cur_nd, h[cur_nd].m_right, x)

\* The while loop of _iter_insert: the parent under which x belongs.
RECURSIVE iter_insert_descend(_, _, _, _)
iter_insert_descend(h, par_nd, cur_nd, x) ==
    IF cur_nd = NIL THEN par_nd
    ELSE IF x < h[cur_nd].m_key
         THEN iter_insert_descend(h, cur_nd, h[cur_nd].m_left, x)
         ELSE iter_insert_descend(h, cur_nd, h[cur_nd].m_right, x)

\* _iter_insert returns the new node; here the tree after it, the new node
\* being the last one of the heap.
_iter_insert(t, x) ==
    LET new_nd == Len(t.heap) + 1
        par_nd == iter_insert_descend(t.heap, NIL, t.m_root, x)
        h1 == Append(t.heap, [Node(x) EXCEPT !.m_parent = par_nd])
    IN  IF par_nd = NIL THEN [t EXCEPT !.m_root = new_nd, !.heap = h1]
        ELSE IF x < h1[par_nd].m_key
             THEN [t EXCEPT !.heap = [h1 EXCEPT ![par_nd].m_left = new_nd]]
             ELSE [t EXCEPT !.heap = [h1 EXCEPT ![par_nd].m_right = new_nd]]

\* _rec_insert that sends a key equal to the node's key to the left.
RECURSIVE _rec_insert_equal_left(_, _, _)
_rec_insert_equal_left(h, node, x) ==
    IF node = NIL THEN [heap |-> Append(h, Node(x)), node |-> Len(h) + 1]
    ELSE IF x <= h[node].m_key THEN
        LET r == _rec_insert_equal_left(h, h[node].m_left, x)
            h1 == [r.heap EXCEPT ![node].m_left = r.node]
        IN  [heap |-> [h1 EXCEPT ![h1[node].m_left].m_parent = node],
             node |-> node]
    ELSE
        LET r == _rec_insert_equal_left(h, h[node].m_right, x)
            h1 == [r.heap EXCEPT ![node].m_right = r.node]
        IN  [heap |-> [h1 EXCEPT ![h1[node].m_right].m_parent = node],
             node |-> node]

\* _rec_insert(node, x): the heap after the call and the node it returns.
RECURSIVE _rec_insert(_, _, _)
_rec_insert(h, node, x) ==
    IF node = NIL THEN [heap |-> Append(h, Node(x)), node |-> Len(h) + 1]
    ELSE IF x < h[node].m_key THEN
        LET r == _rec_insert(h, h[node].m_left, x)
            h1 == [r.heap EXCEPT ![node].m_left = r.node]
        IN  [heap |-> [h1 EXCEPT ![h1[node].m_left].m_parent = node],
             node |-> node]
    ELSE
        LET r == _rec_insert(h, h[node].m_right, x)
            h1 == [r.heap EXCEPT ![node].m_right = r.node]
        IN  [heap |-> [h1 EXCEPT ![h1[node].m_right].m_parent = node],
             node |-> node]

\* transplant that always writes the left slot of u's parent.
transplant_left_slot(t, u, v) ==
    IF t.m_root = u THEN
        IF v = NIL THEN [t EXCEPT !.m_root = v, !.ub = TRUE]
        ELSE [t EXCEPT !.m_root = v,
                       !.heap[v].m_parent = t.heap[u].m_parent]
    ELSE
        LET par == t.heap[u].m_parent
            t1 == [t EXCEPT !.heap[par].m_left = v]
        IN  IF v # NIL THEN [t1 EXCEPT !.heap[v].m_parent = par] ELSE t1

\* transplant(u, v).  In the root branch v -> m_parent is written without a
\* null test: with v == nullptr that is a null dereference, recorded in ub.
transplant(t, u, v) ==
    IF t.m_root = u THEN
        IF v = NIL THEN [t EXCEPT !.m_root = v, !.ub = TRUE]
        ELSE [t EXCEPT !.m_root = v,
                       !.heap[v].m_parent = t.heap[u].m_parent]
    ELSE
        LET par == t.heap[u].m_parent
            t1 == IF u = t.heap[par].m_left
                  THEN [t EXCEPT !.heap[par].m_left = v]
                  ELSE [t EXCEPT !.heap[par].m_right = v]
        IN  IF v # NIL THEN [t1 EXCEPT !.heap[v].m_parent = par] ELSE t1

\* remove(node) whose first case splices the (absent) left child in, so the
\* right subtree of the node goes with it.
remove_drops_right(t, node) ==
    IF t.heap[node].m_left = NIL THEN
        transplant(t, node, t.heap[node].m_left)
    ELSE IF t.heap[node].m_right = NIL THEN
        transplant(t, node, t.heap[node].m_left)
    ELSE
        LET suc == successor(t.heap, node)
            t1 == IF t.heap[node].m_right # suc THEN
                      LET a == transplant(t, suc, t.heap[suc].m_right)
                          b == [a EXCEPT !.heap[suc].m_right =
                                              a.heap[node].m_right]
                      IN  [b EXCEPT !.heap[b.heap[suc].m_right].m_parent = suc]
                  ELSE t
            t2 == transplant(t1, node, suc)
            t3 == [t2 EXCEPT !.heap[suc].m_left = t2.heap[node].m_left]
        IN  [t3 EXCEPT !.heap[t3.heap[suc].m_left].m_parent = suc]

\* remove(node), CLRS TREE-DELETE.
remove(t, node) ==
    IF t.heap[node].m_left = NIL THEN
        transplant(t, node, t.heap[node].m_right)
    ELSE IF t.heap[node].m_right = NIL THEN
        transplant(t, node, t.heap[node].m_left)
    ELSE
        LET suc == successor(t.heap, node)
            t1 == IF t.heap[node].m_right # suc THEN
                      LET a == transplant(t, suc, t.heap[suc].m_right)
                          b == [a EXCEPT !.heap[suc].m_right =
                                              a.heap[node].m_right]
                      IN  [b EXCEPT !.heap[b.heap[suc].m_right].m_parent = suc]
                  ELSE t
            t2 == transplant(t1, node, suc)
            t3 == [t2 EXCEPT !.heap[suc].m_left = t2.heap[node].m_left]
        IN  [t3 EXCEPT !.heap[t3.heap[suc].m_left].m_parent = suc]

----------------------------------------------------------------------------
\* AVLTree: rotations and the rebalance walk

\* left_rotate that leaves the parent of y's left subtree as it was.
left_rotate_stale_parent(t, x) ==
    LET y == t.heap[x].m_right IN
    IF y = NIL THEN t
    ELSE
        LET t1 == [t EXCEPT !.heap[x].m_right = t.heap[y].m_left]
            t3 == [t1 EXCEPT !.heap[y].m_parent = t1.heap[x].m_parent]
            xp == t3.heap[x].m_parent
            t4 == IF xp = NIL THEN [t3 EXCEPT !.m_root = y]
                  ELSE IF x = t3.heap[xp].m_left
                       THEN [t3 EXCEPT !.heap[xp].m_left = y]
                       ELSE [t3 EXCEPT !.heap[xp].m_right = y]
            t5 == [t4 EXCEPT !.heap[y].m_left = x]
        IN  [t5 EXCEPT !.heap[x].m_parent = y,
                       !.rot = Append(@, Rotation("left_rotate", x))]

left_rotate(t, x) ==
    LET y == t.heap[x].m_right IN
    IF y = NIL THEN t
    ELSE
        LET t1 == [t EXCEPT !.heap[x].m_right = t.heap[y].m_left]
            t2 == IF t1.heap[y].m_left # NIL
                  THEN [t1 EXCEPT !.heap[t1.heap[y].m_left].m_parent = x]
                  ELSE t1
            t3 == [t2 EXCEPT !.heap[y].m_parent = t2.heap[x].m_parent]
            xp == t3.heap[x].m_parent
            t4 == IF xp = NIL THEN [t3 EXCEPT !.m_root = y]
                  ELSE IF x = t3.heap[xp].m_left
                       THEN [t3 EXCEPT !.heap[xp].m_left = y]
                       ELSE [t3 EXCEPT !.heap[xp].m_right = y]
            t5 == [t4 EXCEPT !.heap[y].m_left = x]
        IN  [t5 EXCEPT !.heap[x].m_parent = y,
                       !.rot = Append(@, Rotation("left_rotate", x))]

\* right_rotate that clears x's left link and so drops y's right subtree.
right_rotate_loses_inner(t, x) ==
    LET y == t.heap[x].m_left IN
    IF y = NIL THEN t
    ELSE
        LET t1 == [t EXCEPT !.heap[x].m_left = NIL]
            t3 == [t1 EXCEPT !.heap[y].m_parent = t1.heap[x].m_parent]
            xp == t3.heap[x].m_parent
            t4 == IF xp = NIL THEN [t3 EXCEPT !.m_root = y]
                  ELSE IF x = t3.heap[xp].m_left
                       THEN [t3 EXCEPT !.heap[xp].m_left = y]
                       ELSE [t3 EXCEPT !.heap[xp].m_right = y]
            t5 == [t4 EXCEPT !.heap[y].m_right = x]
        IN  [t5 EXCEPT !.heap[x].m_parent = y,
                       !.rot = Append(@, Rotation("right_rotate", x))]

right_rotate(t, x) ==
    LET y == t.heap[x].m_left IN
    IF y = NIL THEN t
    ELSE
        LET t1 == [t EXCEPT !.heap[x].m_left = t.heap[y].m_right]
            t2 == IF t1.heap[y].m_right # NIL
                  THEN [t1 EXCEPT !.heap[t1.heap[y].m_right].m_parent = x]
                  ELSE t1
            t3 == [t2 EXCEPT !.heap[y].m_parent = t2.heap[x].m_parent]
            xp == t3.heap[x].m_parent
            t4 == IF xp = NIL THEN [t3 EXCEPT !.m_root = y]
                  ELSE IF x = t3.heap[xp].m_left
                       THEN [t3 EXCEPT !.heap[xp].m_left = y]
                       ELSE [t3 EXCEPT !.heap[xp].m_right = y]
            t5 == [t4 EXCEPT !.heap[y].m_right = x]
        IN  [t5 EXCEPT !.heap[x].m_parent = y,
                       !.rot = Append(@, Rotation("right_rotate", x))]

\* rebalance_at without the mirrored half: a right-heavy node is left alone.
rebalance_at_left_heavy_only(t, x) ==
    LET h == t.heap
        l == h[x].m_left
        r == h[x].m_right
    IN  IF height(h, l) > height(h, r) + 1 THEN
            IF height(h, h[l].m_left) >= height(h, h[l].m_right)
            THEN right_rotate(t, x)
            ELSE right_rotate(left_rotate(t, l), x)
        ELSE t

\* rebalance_at that in a zig-zag case rotates at the child only.
rebalance_at_child_only(t, x) ==
    LET h == t.heap
        l == h[x].m_left
        r == h[x].m_right
    IN  IF height(h, l) > height(h, r) + 1 THEN
            IF height(h, h[l].m_left) >= height(h, h[l].m_right)
            THEN right_rotate(t, x)
            ELSE left_rotate(t, l)
        ELSE IF height(h, r) > height(h, l) + 1 THEN
            IF height(h, h[r].m_right) >= height(h, h[r].m_left)
            THEN left_rotate(t, x)
            ELSE right_rotate(t, r)
        ELSE t

\* rebalance_at that always rotates once at x, zig-zag or not.
rebalance_at_single_only(t, x) ==
    LET h == t.heap
        l == h[x].m_left
        r == h[x].m_right
    IN  IF height(h, l) > height(h, r) + 1 THEN right_rotate(t, x)
        ELSE IF height(h, r) > height(h, l) + 1 THEN left_rotate(t, x)
        ELSE t

\* One pass of the loop body of rebalance at x: the rotations, if any.
rebalance_at(t, x) ==
    LET h == t.heap
        l == h[x].m_left
        r == h[x].m_right
    IN  IF height(h, l) > height(h, r) + 1 THEN
            IF height(h, h[l].m_left) >= height(h, h[l].m_right)
            THEN right_rotate(t, x)
            ELSE right_rotate(left_rotate(t, l), x)
        ELSE IF height(h, r) > height(h, l) + 1 THEN
            IF height(h, h[r].m_right) >= height(h, h[r].m_left)
            THEN left_rotate(t, x)
            ELSE left_rotate(right_rotate(t, r), x)
        ELSE t

RECURSIVE rebalance(_, _)
rebalance(t, x) ==
    IF x = NIL THEN t
    ELSE LET t1 == rebalance_at(t, x)
         IN  rebalance(t1, t1.heap[x].m_parent)

\* The while loop of rebalance with its passes, in order: the node visited
\* and the tree before and after the pass.  The walk is cut after MaxWalk
\* passes: x is NIL in the result exactly when the loop has ended by itself.
MaxWalk == 4 * MaxAvlNodes

Pass(x, a, b) == [x |-> x, before |-> a, after |-> b]

RECURSIVE rebalance_walk(_, _, _)
rebalance_walk(t, x, walk) ==
    IF x = NIL \/ Len(walk) >= MaxWalk
    THEN [tree |-> t, x |-> x, walk |-> walk]
    ELSE LET t1 == rebalance_at(t, x)
         IN  rebalance_walk(t1, t1.heap[x].m_parent,
                            Append(walk, Pass(x, t, t1)))

----------------------------------------------------------------------------
\* The public calls

Call(op, arg, err, val) == [op |-> op, arg |-> arg, err |-> err, val |-> val]

Init ==
    /\ m_root = NIL
    /\ heap = <<>>
    /\ status = "running"
    /\ ret = Call("BinaryTree", NIL, "none", NIL)
    /\ kind \in {"BinarySearchTree", "AVLTree"}
    /\ inserted = 0
    /\ removed = 0
    /\ NoQueue

\* BinarySearchTree::insert(x), the recursive insertion
BST_insert(x) ==
    /\ status = "running"
    /\ kind = "BinarySearchTree"
    /\ Len(heap) < MaxNodes
    /\ LET r == _rec_insert(heap, m_root, x)
       IN  /\ m_root' = r.node
           /\ heap' = r.heap
    /\ ret' = Call("insert", x, "none", NIL)
    /\ inserted' = inserted + 1
    /\ UNCHANGED <<status, kind, removed, queue_vars>>

\* BinarySearchTree::iter_insert(x)
BST_iter_insert(x) ==
    /\ status = "running"
    /\ kind = "BinarySearchTree"
    /\ Len(heap) < MaxNodes
    /\ LET t == _iter_insert(Tree(m_root, heap), x)
       IN  /\ m_root' = t.m_root
           /\ heap' = t.heap
    /\ ret' = Call("iter_insert", x, "none", NIL)
    /\ inserted' = inserted + 1
    /\ UNCHANGED <<status, kind, removed, queue_vars>>

\* AVLTree::insert(e): _iter_insert, then rebalance from the new node; val
\* keeps the rotations the call performed.
AVL_insert(e) ==
    /\ status = "running"
    /\ kind = "AVLTree"
    /\ Len(heap) < MaxNodes
    /\ LET t1 == _iter_insert(Tree(m_root, heap), e)
           t2 == rebalance(t1, Len(t1.heap))
       IN  /\ m_root' = t2.m_root
           /\ heap' = t2.heap
           /\ ret' = Call("AVLTree::insert", e, "none", t2.rot)
    /\ inserted' = inserted + 1
    /\ UNCHANGED <<status, kind, removed, queue_vars>>

\* remove(x) without the test of x_node: remove(node) is entered with a null
\* node and the process dies on node -> m_left.
BST_remove_unchecked(x) ==
    /\ status = "running"
    /\ IF m_root = NIL THEN
           /\ ret' = Call("remove", x, "EmptyTreeError", NIL)
           /\ UNCHANGED <<m_root, heap, status, kind, inserted, removed, queue_vars>>
       ELSE LET x_node == search(heap, m_root, x) IN
           IF x_node = NIL THEN
               /\ ret' = Call("remove", x, "none", NIL)
               /\ status' = "crashed"
               /\ UNCHANGED <<m_root, heap, kind, inserted, removed, queue_vars>>
           ELSE LET t == remove(Tree(m_root, heap), x_node) IN
               /\ m_root' = t.m_root
               /\ heap' = [t.heap EXCEPT ![x_node] = Destroyed]
               /\ ret' = Call("remove", x, "none", t.heap[x_node])
               /\ removed' = removed + 1
               /\ IF t.ub THEN status' \in {"running", "crashed"}
                          ELSE status' = status
               /\ UNCHANGED <<kind, inserted, queue_vars>>

\* remove(x) as an AVL deletion: after the splice, rebalance from the lowest
\* node whose subtree has changed.
BST_remove_rebalancing(x) ==
    /\ status = "running"
    /\ IF m_root = NIL THEN
           /\ ret' = Call("remove", x, "EmptyTreeError", NIL)
           /\ UNCHANGED <<m_root, heap, status, kind, inserted, removed, queue_vars>>
       ELSE LET x_node == search(heap, m_root, x) IN
           IF x_node = NIL THEN
               /\ ret' = Call("remove", x, "ValueError", NIL)
               /\ UNCHANGED <<m_root, heap, status, kind, inserted, removed, queue_vars>>
           ELSE LET suc == successor(heap, x_node)
                    from == IF heap[x_node].m_left = NIL
                               \/ heap[x_node].m_right = NIL
                            THEN heap[x_node].m_parent
                            ELSE IF heap[suc].m_parent = x_node THEN suc
                            ELSE heap[suc].m_parent
                    t1 == remove(Tree(m_root, heap), x_node)
                    t == IF kind = "AVLTree" THEN rebalance(t1, from) ELSE t1
                IN
               /\ m_root' = t.m_root
               /\ heap' = [t.heap EXCEPT ![x_node] = Destroyed]
               /\ ret' = Call("remove", x, "none", t.heap[x_node])
               /\ removed' = removed + 1
               /\ IF t.ub THEN status' \in {"running", "crashed"}
                          ELSE status' = status
               /\ UNCHANGED <<kind, inserted, queue_vars>>

\* remove(x) that splices the root out before it has looked for x, and only
\* then reports that x is missing.
BST_remove_before_test(x) ==
    /\ status = "running"
    /\ IF m_root = NIL THEN
           /\ ret' = Call("remove", x, "EmptyTreeError", NIL)
           /\ UNCHANGED <<m_root, heap, status, kind, inserted, removed, queue_vars>>
       ELSE LET x_node == search(heap, m_root, x) IN
           IF x_node = NIL THEN
               LET t == remove(Tree(m_root, heap), m_root) IN
               /\ m_root' = t.m_root
               /\ heap' = [t.heap EXCEPT ![m_root] = Destroyed]
               /\ ret' = Call("remove", x, "ValueError", NIL)
               /\ UNCHANGED <<status, kind, inserted, removed, queue_vars>>
           ELSE LET t == remove(Tree(m_root, heap), x_node) IN
               /\ m_root' = t.m_root
               /\ heap' = [t.heap EXCEPT ![x_node] = Destroyed]
               /\ ret' = Call("remove", x, "none", t.heap[x_node])
               /\ removed' = removed + 1
               /\ IF t.ub THEN status' \in {"running", "crashed"}
                          ELSE status' = status
               /\ UNCHANGED <<kind, inserted, queue_vars>>

\* BinarySearchTree::remove(x).  A null dereference inside transplant either
\* kills the process (m_root is already overwritten) or, the store being
\* dropped by the build, goes unnoticed.  On return x_node, the last owner
\* of the detached node, goes out of scope and the node is destroyed; val
\* keeps the links it held when remove(node) returned.
BST_remove(x) ==
    /\ status = "running"
    /\ IF m_root = NIL THEN
           /\ ret' = Call("remove", x, "EmptyTreeError", NIL)
           /\ UNCHANGED <<m_root, heap, status, kind, inserted, removed, queue_vars>>
       ELSE LET x_node == search(heap, m_root, x) IN
           IF x_node = NIL THEN
               /\ ret' = Call("remove", x, "ValueError", NIL)
               /\ UNCHANGED <<m_root, heap, status, kind, inserted, removed, queue_vars>>
           ELSE LET t == remove(Tree(m_root, heap), x_node) IN
               /\ m_root' = t.m_root
               /\ heap' = [t.heap EXCEPT ![x_node] = Destroyed]
               /\ ret' = Call("remove", x, "none", t.heap[x_node])
               /\ removed' = removed + 1
               /\ IF t.ub THEN status' \in {"running", "crashed"}
                          ELSE status' = status
               /\ UNCHANGED <<kind, inserted, queue_vars>>

\* BinarySearchTree::search(x)
BST_search(x) ==
    /\ status = "running"
    /\ ret' = Call("search", x, "none", search(heap, m_root, x) # NIL)
    /\ UNCHANGED <<m_root, heap, status, kind, inserted, removed, queue_vars>>

\* BinarySearchTree::minimum()
BST_minimum ==
    /\ status = "running"
    /\ IF m_root = NIL
       THEN ret' = Call("minimum", NIL, "EmptyTreeError", NIL)
       ELSE ret' = Call("minimum", NIL, "none",
                        heap[minimum(heap, m_root)].m_key)
    /\ UNCHANGED <<m_root, heap, status, kind, inserted, removed, queue_vars>>

\* BinarySearchTree::maximum()
BST_maximum ==
    /\ status = "running"
    /\ IF m_root = NIL
       THEN ret' = Call("maximum", NIL, "EmptyTreeError", NIL)
       ELSE ret' = Call("maximum", NIL, "none",
                        heap[maximum(heap, m_root)].m_key)
    /\ UNCHANGED <<m_root, heap, status, kind, inserted, removed, queue_vars>>

\* successor(x) without the test of m_root: the search of an empty tree
\* finds nothing and the call reports a missing key.
BST_successor_no_empty_test(x) ==
    /\ status = "running"
    /\ LET x_node == search(heap, m_root, x) IN
           IF x_node = NIL THEN
               ret' = Call("successor", x, "ValueError", NIL)
           ELSE LET node == successor(heap, x_node) IN
               IF node = NIL
               THEN ret' = Call("successor", x, "ValueError", NIL)
               ELSE ret' = Call("successor", x, "none", heap[node].m_key)
    /\ UNCHANGED <<m_root, heap, status, kind, inserted, removed, queue_vars>>

\* BinarySearchTree::successor(x)
BST_successor(x) ==
    /\ status = "running"
    /\ IF m_root = NIL THEN
           ret' = Call("successor", x, "EmptyTreeError", NIL)
       ELSE LET x_node == search(heap, m_root, x) IN
           IF x_node = NIL THEN
               ret' = Call("successor", x, "ValueError", NIL)
           ELSE LET node == successor(heap, x_node) IN
               IF node = NIL
               THEN ret' = Call("successor", x, "ValueError", NIL)
               ELSE ret' = Call("successor", x, "none", heap[node].m_key)
    /\ UNCHANGED <<m_root, heap, status, kind, inserted, removed, queue_vars>>

\* predecessor(x) that reports a key it does not find as an empty tree.
BST_predecessor_wrong_error(x) ==
    /\ status = "running"
    /\ IF m_root = NIL THEN
           ret' = Call("predecessor", x, "EmptyTreeError", NIL)
       ELSE LET x_node == search(heap, m_root, x) IN
           IF x_node = NIL THEN
               ret' = Call("predecessor", x, "EmptyTreeError", NIL)
           ELSE LET node == predecessor(heap, x_node) IN
               IF node = NIL
               THEN ret' = Call("predecessor", x, "ValueError", NIL)
               ELSE ret' = Call("predecessor", x, "none", heap[node].m_key)
    /\ UNCHANGED <<m_root, heap, status, kind, inserted, removed, queue_vars>>

\* BinarySearchTree::predecessor(x)
BST_predecessor(x) ==
    /\ status = "running"
    /\ IF m_root = NIL THEN
           ret' = Call("predecessor", x, "EmptyTreeError", NIL)
       ELSE LET x_node == search(heap, m_root, x) IN
           IF x_node = NIL THEN
               ret' = Call("predecessor", x, "ValueError", NIL)
           ELSE LET node == predecessor(heap, x_node) IN
               IF node = NIL
               THEN ret' = Call("predecessor", x, "ValueError", NIL)
               ELSE ret' = Call("predecessor", x, "none", heap[node].m_key)
    /\ UNCHANGED <<m_root, heap, status, kind, inserted, removed, queue_vars>>

Next ==
    \/ \E x \in Keys : BST_insert(x)
    \/ \E x \in Keys : BST_iter_insert(x)
    \/ \E x \in Keys : AVL_insert(x)
    \/ \E x \in Keys : BST_remove(x)
    \/ \E x \in Keys : BST_search(x)
    \/ BST_minimum
    \/ BST_maximum
    \/ \E x \in Keys : BST_successor(x)
    \/ \E x \in Keys : BST_predecessor(x)

Spec == Init /\ [][Next]_vars

----------------------------------------------------------------------------
\* BinaryTree: construction from a layout and the traversals.  A BinaryTree
\* object is built once from a layout; a BinarySearchTree object is grown
\* with iter_insert, which reaches every shape.  The traversals, public in
\* BinaryTree, are called on either; val keeps the keys handed to the
\* callback, in order.

ExampleLayout == <<5, 3, 8, nullopt, 4, nullopt, 9>>

Layouts ==
    UNION {[1..n -> Keys \cup {nullopt}] : n \in 0..MaxLayout}
        \cup {ExampleLayout}

ShapeKeys == 1..MaxNodes

InitBT ==
    /\ m_root = NIL
    /\ heap = <<>>
    /\ status = "running"
    /\ kind \in {"BinaryTree", "BinarySearchTree"}
    /\ ret = Call(IF kind = "BinaryTree" THEN "main" ELSE "BinaryTree",
                  NIL, "none", NIL)
    /\ inserted = 0
    /\ removed = 0
    /\ NoQueue

\* BinaryTree(tree_vec).  After the null dereference of an absent queue
\* entry the program either is killed or goes on with what was built.
BinaryTree_ctor(tree_vec) ==
    /\ status = "running"
    /\ kind = "BinaryTree"
    /\ ret.op = "main"
    /\ LET t == BinaryTree(tree_vec)
       IN  /\ m_root' = t.m_root
           /\ heap' = t.heap
           /\ IF t.ub THEN status' \in {"running", "crashed"}
              ELSE status' = status
    /\ ret' = Call("BinaryTree", tree_vec, "none", NIL)
    /\ UNCHANGED <<kind, inserted, removed, queue_vars>>

\* A traversal with a callback that appends the key to a list.
Traversal(name, visited) ==
    /\ status = "running"
    /\ ret.op # "main"
    /\ ret' = Call(name, NIL, "none", visited)
    /\ UNCHANGED <<m_root, heap, status, kind, inserted, removed, queue_vars>>

pre_order_traversal ==
    Traversal("pre_order_traversal", pre_order(heap, m_root))

in_order_traversal ==
    Traversal("in_order_traversal", in_order(heap, m_root))

post_order_traversal ==
    Traversal("post_order_traversal", post_order(heap, m_root))

pre_order_iter_traversal ==
    Traversal("pre_order_iter_traversal", pre_order_iter(heap, m_root))

in_order_iter_traversal ==
    Traversal("in_order_iter_traversal", in_order_iter(heap, m_root))

post_order_iter_traversal_twostacks ==
    Traversal("post_order_iter_traversal_twostacks",
              post_order_iter_twostacks(heap, m_root))

post_order_iter_traversal_onestack ==
    Traversal("post_order_iter_traversal_onestack",
              post_order_iter_onestack(heap, m_root))

breadth_first_traversal ==
    Traversal("breadth_first_traversal", bfs(heap, m_root))

NextBT ==
    \/ \E tree_vec \in Layouts : BinaryTree_ctor(tree_vec)
    \/ \E x \in ShapeKeys : BST_iter_insert(x)
    \/ pre_order_traversal
    \/ in_order_traversal
    \/ post_order_traversal
    \/ pre_order_iter_traversal
    \/ in_order_iter_traversal
    \/ post_order_iter_traversal_twostacks
    \/ post_order_iter_traversal_onestack
    \/ breadth_first_traversal

SpecBinaryTree == InitBT /\ [][NextBT]_vars

----------------------------------------------------------------------------
\* Vocabulary of the properties

\* The nodes of the subtree rooted at node.
RECURSIVE subtree(_, _)
subtree(h, node) ==
    IF node = NIL THEN {}
    ELSE {node} \cup subtree(h, h[node].m_left) \cup subtree(h, h[node].m_right)

InOrderKeys == in_order(heap, m_root)

KeySet(s) == {s[i] : i \in 1..Len(s)}

Occurrences(s, x) == Cardinality({i \in 1..Len(s) : s[i] = x})

Sorted(s) == \A i \in 1..(Len(s) - 1) : s[i] <= s[i + 1]

HasDuplicates(s) == \E i \in 1..(Len(s) - 1) : s[i] = s[i + 1]

Balanced(h, node) ==
    \A n \in subtree(h, node) :
        LET d == height(h, h[n].m_left) - height(h, h[n].m_right)
        IN  -1 <= d /\ d <= 1

\* The step just taken is a call of remove that returned normally.
RemoveReturned ==
    ret'.op = "remove" /\ ret'.err = "none" /\ status' = "running"

----------------------------------------------------------------------------
\* C1: after any sequence of AVLTree::insert calls on an empty AVL tree
\* (no removals, duplicates allowed) the heights of the two subtrees of
\* every node differ by at most 1, an absent subtree having height -1.
C1_AvlBalanced ==
    (kind = "AVLTree" /\ removed = 0) => Balanced(heap, m_root)

\* A full AVL tree with a duplicate key whose first node was rotated out of
\* the root.
C1_Witness ==
    /\ kind = "AVLTree" /\ removed = 0 /\ inserted = MaxNodes
    /\ ret.op = "AVLTree::insert"
    /\ m_root # 1
    /\ HasDuplicates(InOrderKeys)
    /\ Balanced(heap, m_root)

\* C2: after any sequence of insertions (insert, iter_insert or
\* AVLTree::insert, duplicates allowed) on an empty tree the in-order
\* traversal visits the keys in non-decreasing order.
C2_InOrderSorted ==
    removed = 0 => Sorted(InOrderKeys)

C2_Witness ==
    /\ removed = 0 /\ inserted = MaxNodes
    /\ Len(InOrderKeys) = MaxNodes
    /\ HasDuplicates(InOrderKeys)
    /\ InOrderKeys[1] < InOrderKeys[MaxNodes]
    /\ heap[1].m_key > InOrderKeys[1]
    /\ Sorted(InOrderKeys)

\* C3: after any sequence of insert and remove calls on an empty tree,
\* size() returns the number of keys inserted minus the number removed,
\* also when a removal takes the tree back to empty.
C3_SizeIsInsertedMinusRemoved ==
    status = "running" /\ size(heap, m_root) = inserted - removed

\* C4: remove(k) on a tree that is a single node holding k returns normally
\* and leaves the tree empty; transplant(root, nullptr) does not touch v.
C4_RemoveOnlyNode ==
    [][(/\ m_root # NIL
        /\ heap[m_root].m_left = NIL /\ heap[m_root].m_right = NIL
        /\ ret'.op = "remove" /\ ret'.arg = heap[m_root].m_key)
       => (/\ ~transplant(Tree(m_root, heap), m_root, NIL).ub
           /\ ret'.err = "none" /\ status' = "running" /\ m_root' = NIL)]_vars

\* C5 as stated: after a remove(x) that returned normally, search(x) is
\* false, duplicates permitted.
C5_SearchFalseAfterRemove ==
    [][RemoveReturned => search(heap', m_root', ret'.arg) = NIL]_vars

\* C5 amended: after a remove(x) that returned normally, search(x) is false
\* exactly when the tree held one occurrence of x before the call; with
\* further occurrences search(x) stays true.
C5_SearchFalseIffSoleCopy ==
    [][RemoveReturned =>
          (search(heap', m_root', ret'.arg) = NIL
              <=> Occurrences(InOrderKeys, ret'.arg) = 1)]_vars

\* A removal of the only copy of a key from a tree that keeps other nodes.
C5_Witness ==
    /\ ret.op = "remove" /\ ret.err = "none" /\ status = "running"
    /\ m_root # NIL
    /\ search(heap, m_root, ret.arg) = NIL
    /\ Occurrences(InOrderKeys, ret.arg) = 0

\* C6: after a remove(x) that returned normally, search(y) is true for
\* every key y # x the tree held before the call, in each removal case.
C6_RemoveKeepsOtherKeys ==
    [][RemoveReturned =>
          \A y \in KeySet(InOrderKeys) \ {ret'.arg} :
              search(heap', m_root', y) # NIL]_vars

\* A removal of a node with two children whose successor was not its right
\* child: the node's former left child now hangs under another node than
\* the former right child.
C6_Witness ==
    /\ ret.op = "remove" /\ ret.err = "none" /\ status = "running"
    /\ ret.val.m_left # NIL /\ ret.val.m_right # NIL
    /\ heap[ret.val.m_left].m_parent # ret.val.m_right
    /\ \E y \in Keys \ {ret.arg} : search(heap, m_root, y) # NIL

\* C7: on a tree of at least two keys built by insertions, successor of
\* the key minimum() returns is the second key of the in-order sequence.
C7_SuccessorOfMinimum ==
    (/\ ret.op = "successor" /\ removed = 0
     /\ size(heap, m_root) >= 2
     /\ ret.arg = heap[minimum(heap, m_root)].m_key)
    => (ret.err = "none" /\ ret.val = InOrderKeys[2])

\* C8: on a tree of at least two keys built by insertions, predecessor of
\* the key maximum() returns is the last but one key of the in-order
\* sequence.
C8_PredecessorOfMaximum ==
    (/\ ret.op = "predecessor" /\ removed = 0
     /\ size(heap, m_root) >= 2
     /\ ret.arg = heap[maximum(heap, m_root)].m_key)
    => (ret.err = "none" /\ ret.val = InOrderKeys[Len(InOrderKeys) - 1])

C10_EmptyTreeQueriesFail ==
    [][(/\ m_root = NIL
        /\ ret'.op \in {"minimum", "maximum", "successor", "predecessor"})
       => (/\ ret'.err = "EmptyTreeError"
           /\ m_root' = NIL /\ heap' = heap /\ status' = "running")]_vars

C10_Witness ==
    /\ ret.op = "successor" /\ ret.err = "EmptyTreeError"
    /\ m_root = NIL /\ size(heap, m_root) = 0

----------------------------------------------------------------------------
\* Ordering and linking of the nodes

subtree_keys(h, node) == {h[n].m_key : n \in subtree(h, node)}

\* Left subtree strictly below the node's key, right subtree at or above it.
Ordered(h, node) ==
    \A n \in subtree(h, node) :
        /\ \A k \in subtree_keys(h, h[n].m_left) : k < h[n].m_key
        /\ \A k \in subtree_keys(h, h[n].m_right) : k >= h[n].m_key

\* Every child reached from node names its parent; the root names none.
Mirrored(h, node) ==
    /\ node # NIL => h[node].m_parent = NIL
    /\ \A p \in subtree(h, node) :
        /\ h[p].m_left # NIL => h[h[p].m_left].m_parent = p
        /\ h[p].m_right # NIL => h[h[p].m_right].m_parent = p

\* C11: on a non-empty tree without k, successor(k) and predecessor(k)
\* fail with the missing-key error (ValueError) and return no key.
C11_AbsentKeyFails ==
    (/\ ret.op \in {"successor", "predecessor"}
     /\ m_root # NIL
     /\ ret.arg \notin KeySet(InOrderKeys))
    => (ret.err = "ValueError" /\ ret.val = NIL)

C11_Witness ==
    /\ ret.op = "predecessor" /\ ret.err = "ValueError"
    /\ size(heap, m_root) >= 2
    /\ ret.arg \notin KeySet(InOrderKeys)
    /\ \E k \in KeySet(InOrderKeys) : k < ret.arg

\* C17: after any sequence of AVLTree::insert calls, duplicates permitted,
\* every node has smaller keys in its left subtree and keys greater than or
\* equal to its own in its right subtree.
C17_AvlInsertKeepsOrdering ==
    (kind = "AVLTree" /\ removed = 0) => Ordered(heap, m_root)

\* C18: after any sequence of insert, iter_insert and successful remove
\* calls on a BinarySearchTree, duplicates permitted, every node has
\* smaller keys in its left subtree and keys greater than or equal to its
\* own in its right subtree.
C18_BstKeepsOrdering ==
    kind = "BinarySearchTree" => Ordered(heap, m_root)

\* A removal of a node with two children from a tree holding a duplicate.
C18_Witness ==
    /\ kind = "BinarySearchTree" /\ status = "running"
    /\ ret.op = "remove" /\ ret.err = "none"
    /\ ret.val.m_left # NIL /\ ret.val.m_right # NIL
    /\ HasDuplicates(InOrderKeys)
    /\ size(heap, m_root) >= 3
    /\ Ordered(heap, m_root)

\* C19: after every public mutating call (insert, iter_insert,
\* AVLTree::insert, remove) every child reachable from the root names its
\* parent in m_parent, and the root's m_parent is null.
C19_ParentsMirrorChildren ==
    Mirrored(heap, m_root)

\* An AVL insertion that rotated twice below the root.
C19_Witness ==
    /\ ret.op = "AVLTree::insert" /\ Len(ret.val) = 2
    /\ heap[ret.val[2].x].m_parent # m_root
    /\ m_root # NIL
    /\ Mirrored(heap, m_root)

\* C20: three strictly ascending keys inserted into an empty AVL tree cause
\* one rotation in all, left_rotate at the node of the first key, and leave
\* the middle key at the root with the smallest key as its left child and
\* the largest as its right child.
C20_AscendingTriple ==
    (/\ kind = "AVLTree" /\ removed = 0 /\ ret.op = "AVLTree::insert"
     /\ inserted <= 3
     /\ \A i \in 1..(inserted - 1) : heap[i].m_key < heap[i + 1].m_key)
    => IF inserted < 3 THEN ret.val = <<>>
       ELSE /\ ret.val = <<Rotation("left_rotate", 1)>>
            /\ m_root = 2
            /\ heap[2].m_left = 1 /\ heap[2].m_right = 3
            /\ heap[1].m_left = NIL /\ heap[1].m_right = NIL
            /\ heap[3].m_left = NIL /\ heap[3].m_right = NIL

C20_Witness ==
    /\ kind = "AVLTree" /\ inserted = 3 /\ removed = 0
    /\ heap[1].m_key < heap[2].m_key /\ heap[2].m_key < heap[3].m_key
    /\ ret.val = <<Rotation("left_rotate", 1)>>
    /\ m_root = 2

----------------------------------------------------------------------------
\* Construction from a breadth-first layout

Present(tree_vec) == SelectSeq(tree_vec, LAMBDA e : e # nullopt)

\* The k-th queue entry is the k-th element of the layout; elements 2k and
\* 2k+1 are consumed as its children.
ImpliesChildOfAbsent(tree_vec) ==
    /\ tree_vec # <<>>
    /\ tree_vec[1] # nullopt
    /\ \E k \in 1..Len(tree_vec) :
        2 * k <= Len(tree_vec) /\ tree_vec[k] = nullopt

ValidLayout(tree_vec) ==
    /\ tree_vec # <<>>
    /\ tree_vec[1] # nullopt
    /\ ~ImpliesChildOfAbsent(tree_vec)

\* The node made for element j of the layout: nodes are made in layout order.
NodeOf(tree_vec, j) ==
    IF j > Len(tree_vec) \/ tree_vec[j] = nullopt THEN NIL
    ELSE Len(Present(SubSeq(tree_vec, 1, j)))

PairedInFifoOrder(h, root, tree_vec) ==
    /\ root = 1
    /\ Len(h) = Len(Present(tree_vec))
    /\ \A k \in 1..Len(tree_vec) : tree_vec[k] # nullopt =>
        LET n == NodeOf(tree_vec, k) IN
        /\ h[n].m_key = tree_vec[k]
        /\ h[n].m_left = NodeOf(tree_vec, 2 * k)
        /\ h[n].m_right = NodeOf(tree_vec, 2 * k + 1)
        /\ h[n].m_parent = IF k = 1 THEN NIL ELSE NodeOf(tree_vec, k \div 2)

Constructed == kind = "BinaryTree" /\ ret.op = "BinaryTree"

\* C12: constructing from a layout that supplies a child element for an
\* absent queue entry, such as [1, absent, 2, 3, 4], fails with a
\* MalformedConstruction error and dereferences nothing absent: the program
\* keeps running.
C12_MalformedLayoutFails ==
    (Constructed /\ ImpliesChildOfAbsent(ret.arg)) =>
        (ret.err = "MalformedConstruction" /\ status = "running")

\* C13: after construction from a valid layout the i-th node made has the
\* i-th pair of remaining elements as its left and right children, a
\* breadth_first_traversal called next yields the present keys of the layout
\* in layout order, and for [5, 3, 8, absent, 4, absent, 9] an
\* in_order_traversal called next yields [3, 4, 5, 8, 9].
C13_ValidLayoutIsBreadthFirst ==
    [][(Constructed /\ ValidLayout(ret.arg)) =>
        /\ status = "running"
        /\ PairedInFifoOrder(heap, m_root, ret.arg)
        /\ ret'.op = "breadth_first_traversal" => ret'.val = Present(ret.arg)
        /\ (ret.arg = ExampleLayout /\ ret'.op = "in_order_traversal") =>
               ret'.val = <<3, 4, 5, 8, 9>>]_vars

C13_Witness ==
    /\ ret.op = "breadth_first_traversal"
    /\ ret.val = <<5, 3, 8, 4, 9>>
    /\ kind = "BinaryTree"
    /\ heap[2].m_left = NIL
    /\ heap[2].m_right = 4
    /\ heap[3].m_right = 5

----------------------------------------------------------------------------
\* Agreement of the traversal variants

TwoChildren(h, node) ==
    \E n \in subtree(h, node) : h[n].m_left # NIL /\ h[n].m_right # NIL

\* C14: on every tree the two-stack and the one-stack iterative post-order
\* traversals visit the keys in the order of the recursive post_order.
C14_PostOrderVariantsAgree ==
    /\ ret.op = "post_order_iter_traversal_twostacks" =>
           ret.val = post_order(heap, m_root)
    /\ ret.op = "post_order_iter_traversal_onestack" =>
           ret.val = post_order(heap, m_root)
    /\ post_order_iter_twostacks(heap, m_root) =
           post_order_iter_onestack(heap, m_root)

C14_Witness ==
    /\ ret.op = "post_order_iter_traversal_twostacks"
    /\ TwoChildren(heap, m_root)
    /\ height(heap, m_root) >= 2
    /\ ret.val # pre_order(heap, m_root)
    /\ ret.val # in_order(heap, m_root)

\* C15: on every tree the iterative in-order traversal visits the keys in
\* the order of the recursive in_order.
C15_InOrderVariantsAgree ==
    ret.op = "in_order_iter_traversal" => ret.val = in_order(heap, m_root)

C15_Witness ==
    /\ ret.op = "in_order_iter_traversal"
    /\ TwoChildren(heap, m_root)
    /\ height(heap, m_root) >= 2
    /\ ret.val # pre_order(heap, m_root)
    /\ ret.val # post_order(heap, m_root)

\* C16: on every tree the iterative pre-order traversal, which pushes the
\* right child and then the left one, visits the keys in the order of the
\* recursive pre_order.
C16_PreOrderVariantsAgree ==
    ret.op = "pre_order_iter_traversal" => ret.val = pre_order(heap, m_root)

C16_Witness ==
    /\ ret.op = "pre_order_iter_traversal"
    /\ TwoChildren(heap, m_root)
    /\ height(heap, m_root) >= 2
    /\ ret.val # in_order(heap, m_root)
    /\ ret.val # post_order(heap, m_root)

----------------------------------------------------------------------------
\* Failing calls

FailingCalls == {"minimum", "maximum", "successor", "predecessor", "remove"}

\* C21: a minimum, maximum, successor, predecessor or remove call that ends
\* with an exception leaves the root and every node (key, left, right,
\* parent) as they were before the call.
C21_FailureLeavesTree ==
    [][(ret'.op \in FailingCalls /\ ret'.err # "none") =>
           (m_root' = m_root /\ heap' = heap)]_vars

C21_Witness ==
    /\ ret.op = "remove"
    /\ ret.err = "ValueError"
    /\ size(heap, m_root) >= 2
    /\ removed >= 1

----------------------------------------------------------------------------
\* BinarySearchTree::find: the rank of a key by a full in-order traversal.
\* The members find_target_key, find_count and is_found are scratch space of
\* one call: find overwrites all three before it reads any of them.

\* in_order_find without the early return: the counter runs to the end.
in_order_find_no_stop(self, e) ==
    [self EXCEPT !.find_count = @ + 1,
                 !.is_found = IF e = self.find_target_key THEN TRUE ELSE @]

\* in_order_find(e, this): the callback handed to in_order_traversal.
in_order_find(self, e) ==
    IF self.is_found THEN self
    ELSE [self EXCEPT !.find_count = @ + 1,
                      !.is_found = IF e = self.find_target_key THEN TRUE
                                   ELSE @]

\* The calls of the callback, one per key of the traversal, in order.
RECURSIVE find_visit(_, _)
find_visit(self, keys) ==
    IF keys = <<>> THEN self
    ELSE find_visit(in_order_find(self, Head(keys)), Tail(keys))

find(h, root, x) ==
    LET self == find_visit([find_target_key |-> x, find_count |-> -1,
                            is_found |-> FALSE],
                           in_order(h, root))
    IN  IF ~self.is_found THEN -1 ELSE self.find_count

BST_find(x) ==
    /\ status = "running"
    /\ ret' = Call("find", x, "none", find(heap, m_root, x))
    /\ UNCHANGED <<m_root, heap, status, kind, inserted, removed, queue_vars>>

NextFind ==
    \/ \E x \in Keys : BST_insert(x)
    \/ \E x \in Keys : BST_iter_insert(x)
    \/ \E x \in Keys : AVL_insert(x)
    \/ \E x \in Keys : BST_remove(x)
    \/ \E x \in Keys : BST_find(x)

SpecFind == Init /\ [][NextFind]_vars

\* The 0-based position of the first x in s.
FirstPosition(s, x) ==
    (CHOOSE i \in 1..Len(s) : s[i] = x /\ \A j \in 1..(i - 1) : s[j] # x) - 1

\* C22: find(k) returns the 0-based position of the first k in the in-order
\* key sequence when k is in the tree and -1 when it is not, and it is
\* non-negative exactly when search(k) is true.
C22_FindIsFirstInOrderPosition ==
    ret.op = "find" =>
        /\ ret.arg \in KeySet(InOrderKeys) =>
               ret.val = FirstPosition(InOrderKeys, ret.arg)
        /\ ret.arg \notin KeySet(InOrderKeys) => ret.val = -1
        /\ ret.val >= 0 <=> search(heap, m_root, ret.arg) # NIL

C22_Witness ==
    /\ ret.op = "find"
    /\ ret.val = 1
    /\ Occurrences(InOrderKeys, ret.arg) >= 2
    /\ Len(InOrderKeys) >= 4
    /\ removed >= 1

----------------------------------------------------------------------------
\* The two insertion strategies

\* BinarySearchTree(const vector<T>&): iter_insert of each element in turn.
RECURSIVE BinarySearchTree(_, _)
BinarySearchTree(t, tree_vec) ==
    IF tree_vec = <<>> THEN t
    ELSE BinarySearchTree(_iter_insert(t, Head(tree_vec)), Tail(tree_vec))

\* The same loop calling insert: m_root = _rec_insert(m_root, x).
RECURSIVE insert_each(_, _)
insert_each(t, tree_vec) ==
    IF tree_vec = <<>> THEN t
    ELSE LET r == _rec_insert(t.heap, t.m_root, Head(tree_vec))
         IN  insert_each([t EXCEPT !.m_root = r.node, !.heap = r.heap],
                         Tail(tree_vec))

\* The keys in the order in which their nodes were made.
InsertedKeys == [i \in 1..Len(heap) |-> heap[i].m_key]

\* C23: for every sequence of keys, duplicates included, inserting them one
\* by one into an empty tree with insert and with iter_insert gives the same
\* root and, node by node, the same key, left, right and parent; so does any
\* mix of the two.
C23_InsertStrategiesAgree ==
    (kind = "BinarySearchTree" /\ removed = 0) =>
        LET a == BinarySearchTree(Tree(NIL, <<>>), InsertedKeys)
            b == insert_each(Tree(NIL, <<>>), InsertedKeys)
        IN  /\ a.m_root = b.m_root
            /\ a.heap = b.heap
            /\ m_root = a.m_root
            /\ heap = a.heap

C23_Witness ==
    /\ kind = "BinarySearchTree"
    /\ removed = 0
    /\ ret.op = "insert"
    /\ Len(heap) = MaxNodes
    /\ HasDuplicates(InOrderKeys)
    /\ TwoChildren(heap, m_root)
    /\ height(heap, m_root) >= 2

----------------------------------------------------------------------------
\* AVLTree(const vector<T>&) and the public size() and height()

\* An AVLTree object is constructed from a vector of keys; one step is one
\* pass of the constructor's loop, so that a state with ret.op = "AVLTree" is
\* the object constructed from the keys taken so far.
InitAvl ==
    /\ m_root = NIL
    /\ heap = <<>>
    /\ status = "running"
    /\ ret = Call("main", NIL, "none", NIL)
    /\ kind = "AVLTree"
    /\ inserted = 0
    /\ removed = 0
    /\ NoQueue

AVLTree_ctor(e) ==
    /\ status = "running"
    /\ ret.op \in {"main", "AVLTree"}
    /\ Len(heap) < MaxAvlNodes
    /\ LET t1 == _iter_insert(Tree(m_root, heap), e)
           t2 == rebalance(t1, Len(t1.heap))
       IN  /\ m_root' = t2.m_root
           /\ heap' = t2.heap
    /\ ret' = Call("AVLTree", e, "none", NIL)
    /\ inserted' = inserted + 1
    /\ UNCHANGED <<status, kind, removed, queue_vars>>

BinaryTree_size ==
    /\ status = "running"
    /\ ret.op # "main"
    /\ ret' = Call("size", NIL, "none", size(heap, m_root))
    /\ UNCHANGED <<m_root, heap, status, kind, inserted, removed, queue_vars>>

BinaryTree_height ==
    /\ status = "running"
    /\ ret.op # "main"
    /\ ret' = Call("height", NIL, "none", height(heap, m_root))
    /\ UNCHANGED <<m_root, heap, status, kind, inserted, removed, queue_vars>>

NextAvl ==
    \/ \E e \in Keys : AVLTree_ctor(e)
    \/ BinaryTree_size
    \/ BinaryTree_height

SpecAvl == InitAvl /\ [][NextAvl]_vars

\* Natural numbers of any size, as the sequence of their digits in base
\* 10000, lowest first: d times k plus the carry c, for a small k.
RECURSIVE TimesSmall(_, _, _)
TimesSmall(d, k, c) ==
    IF d = <<>> THEN (IF c = 0 THEN <<>> ELSE <<c>>)
    ELSE LET v == Head(d) * k + c
         IN  <<v % 10000>> \o TimesSmall(Tail(d), k, v \div 10000)

RECURSIVE Power(_, _)
Power(k, e) == IF e = 0 THEN <<1>> ELSE TimesSmall(Power(k, e - 1), k, 0)

AtMost(a, b) ==
    \/ Len(a) < Len(b)
    \/ /\ Len(a) = Len(b)
       /\ \/ a = b
          \/ LET i == CHOOSE j \in 1..Len(a) :
                          a[j] # b[j] /\ \A m \in (j + 1)..Len(a) : a[m] = b[m]
             IN  a[i] < b[i]

\* h <= 1.44 * log2(n + 2), with 1.44 = 36/25: 2^(25 h) <= (n + 2)^36, and
\* 2^(25 h) = 32^(5 h).
\* The pairs are computed once, for the heights and sizes a run can show.
WithinLogBound ==
    UNION {{<<h, n>> : n \in {m \in 0..MaxAvlNodes :
                                 AtMost(Power(32, 5 * h), Power(m + 2, 36))}} :
           h \in 0..MaxAvlNodes}

\* The least number of nodes of a tree of height h whose nodes are all
\* balanced.
RECURSIVE MinAvlSize(_)
MinAvlSize(h) ==
    IF h < 0 THEN 0 ELSE MinAvlSize(h - 1) + MinAvlSize(h - 2) + 1

\* C24: an AVL tree built by insertions only has
\* height() <= 1.44 * log2(size() + 2), and size() is at least the least
\* node count of a balanced tree of that height.
C24_AvlHeightIsLogarithmic ==
    LET h == height(heap, m_root)
        n == size(heap, m_root)
    IN  /\ h >= 0 => <<h, n>> \in WithinLogBound
        /\ n >= MinAvlSize(h)
        /\ ret.op = "height" => ret.val = h
        /\ ret.op = "size" => ret.val = n

C24_Witness ==
    /\ ret.op = "height"
    /\ ret.val = 3
    /\ size(heap, m_root) = 7
    /\ HasDuplicates(InOrderKeys)

----------------------------------------------------------------------------
\* Removal from an AVLTree

\* C25: AVLTree has no remove of its own: a remove on an AVLTree is the
\* splice of BinarySearchTree::remove(node) and performs no rotation, and it
\* can leave a node whose subtrees differ in height by two or more.
C25_AvlRemoveDoesNotRotate ==
    [][(kind = "AVLTree" /\ RemoveReturned) =>
        LET x_node == search(heap, m_root, ret'.arg)
            t == remove(Tree(m_root, heap), x_node)
        IN  /\ t.rot = <<>>
            /\ m_root' = t.m_root
            /\ heap' = [t.heap EXCEPT ![x_node] = Destroyed]]_vars

C25_Witness ==
    /\ kind = "AVLTree"
    /\ ret.op = "remove"
    /\ ret.err = "none"
    /\ status = "running"
    /\ removed = 1
    /\ ~Balanced(heap, m_root)

----------------------------------------------------------------------------
\* Successor and predecessor among distinct keys

Least(S) == CHOOSE k \in S : \A j \in S : k <= j
Greatest(S) == CHOOSE k \in S : \A j \in S : k >= j

\* C26: in a tree of pairwise distinct keys that holds k, successor(k)
\* returns the least key above k and fails, with the error of a missing
\* successor, exactly when k is the greatest key; predecessor(k) returns the
\* greatest key below k and fails exactly when k is the least key.
C26_NeighboursAmongDistinctKeys ==
    (~HasDuplicates(InOrderKeys) /\ ret.arg \in KeySet(InOrderKeys)) =>
        LET above == {k \in KeySet(InOrderKeys) : k > ret.arg}
            below == {k \in KeySet(InOrderKeys) : k < ret.arg}
        IN  /\ ret.op = "successor" =>
                   IF above = {} THEN ret.err = "ValueError"
                   ELSE ret.err = "none" /\ ret.val = Least(above)
            /\ ret.op = "predecessor" =>
                   IF below = {} THEN ret.err = "ValueError"
                   ELSE ret.err = "none" /\ ret.val = Greatest(below)

C26_Witness ==
    /\ ret.op = "successor"
    /\ ret.err = "none"
    /\ ~HasDuplicates(InOrderKeys)
    /\ LET x_node == search(heap, m_root, ret.arg)
       IN  /\ heap[x_node].m_right = NIL
           /\ heap[heap[x_node].m_parent].m_key < ret.arg
           /\ ret.val = heap[m_root].m_key

----------------------------------------------------------------------------
\* The rotations of one AVLTree::insert

\* The step just taken is a call of AVLTree::insert.
AvlInsertReturned == kind = "AVLTree" /\ ret'.op = "AVLTree::insert"

Rotate(t, r) ==
    IF r.op = "left_rotate" THEN left_rotate(t, r.x) ELSE right_rotate(t, r.x)

\* The tree on which rotation i of the log works, t being the tree before
\* the first one; rebalance changes the tree by its rotations only.
RECURSIVE TreeBefore(_, _, _)
TreeBefore(t, rots, i) ==
    IF i = 1 THEN t ELSE Rotate(TreeBefore(t, rots, i - 1), rots[i - 1])

ParentsChanged(a, b) ==
    {n \in 1..Len(a.heap) : a.heap[n].m_parent # b.heap[n].m_parent}

\* The pivot child y of rotation r and the root of y's inner subtree.
PivotChild(t, r) ==
    IF r.op = "left_rotate" THEN t.heap[r.x].m_right ELSE t.heap[r.x].m_left

InnerRoot(t, r) ==
    IF r.op = "left_rotate" THEN t.heap[PivotChild(t, r)].m_left
    ELSE t.heap[PivotChild(t, r)].m_right

\* C27, as stated: every rotation performed by rebalance changes exactly
\* three parent back-references.
C27_RotationChangesThreeParents ==
    [][AvlInsertReturned =>
        LET t1 == _iter_insert(Tree(m_root, heap), ret'.arg)
        IN  \A i \in 1..Len(ret'.val) :
                Cardinality(ParentsChanged(TreeBefore(t1, ret'.val, i),
                                           TreeBefore(t1, ret'.val, i + 1)))
                    = 3]_vars

\* C27, amended: every rotation performed by rebalance changes the parent
\* back-reference of x, of the pivot child y and, when y's inner subtree is
\* not empty, of its root, and of no other node: three back-references when
\* the inner subtree is not empty, two when it is empty.
C27_RotationChangesPivotParents ==
    [][AvlInsertReturned =>
        LET t1 == _iter_insert(Tree(m_root, heap), ret'.arg)
            last == TreeBefore(t1, ret'.val, Len(ret'.val) + 1)
        IN  /\ last.heap = heap'
            /\ last.m_root = m_root'
            /\ \A i \in 1..Len(ret'.val) :
                LET a == TreeBefore(t1, ret'.val, i)
                    b == TreeBefore(t1, ret'.val, i + 1)
                    r == ret'.val[i]
                IN  /\ PivotChild(a, r) # NIL
                    /\ ParentsChanged(a, b) =
                           {r.x, PivotChild(a, r), InnerRoot(a, r)} \ {NIL}
                    /\ Cardinality(ParentsChanged(a, b)) =
                           IF InnerRoot(a, r) # NIL THEN 3 ELSE 2]_vars

\* A single left rotation whose pivot child had an inner subtree: it now
\* hangs to the right of x.
C27_Witness ==
    /\ kind = "AVLTree"
    /\ ret.op = "AVLTree::insert"
    /\ Len(ret.val) = 1
    /\ ret.val[1].op = "left_rotate"
    /\ heap[ret.val[1].x].m_right # NIL

----------------------------------------------------------------------------
\* The walk of rebalance during AVLTree::insert

RECURSIVE Depth(_, _)
Depth(h, n) == IF h[n].m_parent = NIL THEN 0 ELSE Depth(h, h[n].m_parent) + 1

\* The rotations the claim allows at x in tree a: none when the subtrees of
\* x differ by at most one in height; otherwise, c being the taller child,
\* one rotation at x when the outer subtree of c is at least as high as its
\* inner one, and else a rotation at c followed by one at x.
RotationsDue(a, x) ==
    LET h == a.heap
        l == h[x].m_left
        r == h[x].m_right
    IN  IF height(h, l) - height(h, r) >= 2 THEN
            IF height(h, h[l].m_left) >= height(h, h[l].m_right)
            THEN <<Rotation("right_rotate", x)>>
            ELSE <<Rotation("left_rotate", l), Rotation("right_rotate", x)>>
        ELSE IF height(h, r) - height(h, l) >= 2 THEN
            IF height(h, h[r].m_right) >= height(h, h[r].m_left)
            THEN <<Rotation("left_rotate", x)>>
            ELSE <<Rotation("right_rotate", r), Rotation("left_rotate", x)>>
        ELSE <<>>

\* C28: in AVLTree::insert(k) the new node is attached as a leaf by the
\* iterative insertion, with no rotation yet; the walk of rebalance starts at
\* that leaf, goes at every pass to the parent the visited node has after
\* the pass, one level up, and ends above the root; the rotations of a pass
\* are those due at the visited node, at the node itself or at its taller
\* child.
C28_RebalanceWalksUpFromLeaf ==
    [][AvlInsertReturned =>
        \A t1 \in {_iter_insert(Tree(m_root, heap), ret'.arg)} :
        \A w \in {rebalance_walk(t1, Len(t1.heap), <<>>)} :
        LET leaf == Len(t1.heap)
            n == Len(w.walk)
        IN  /\ t1.rot = <<>>
            /\ leaf \in subtree(t1.heap, t1.m_root)
            /\ t1.heap[leaf].m_left = NIL /\ t1.heap[leaf].m_right = NIL
            /\ \A m \in 1..Len(heap) : t1.heap[m].m_parent = heap[m].m_parent
            /\ w.walk[1].x = leaf /\ w.walk[1].before = t1
            /\ w.x = NIL
            /\ w.tree.heap = heap' /\ w.tree.m_root = m_root'
            /\ w.tree.rot = ret'.val
            /\ m_root' = w.walk[n].x
            /\ \A i \in 1..n :
                LET x == w.walk[i].x
                    a == w.walk[i].before
                    b == w.walk[i].after
                    up == b.heap[x].m_parent
                IN  /\ x \in subtree(a.heap, a.m_root)
                    /\ b.rot = a.rot \o RotationsDue(a, x)
                    /\ b = IF i < n THEN w.walk[i + 1].before ELSE w.tree
                    /\ up = IF i < n THEN w.walk[i + 1].x ELSE NIL
                    /\ up # NIL => Depth(b.heap, up) = Depth(b.heap, x) - 1]_vars

\* An insertion whose walk performed a double rotation below the root and
\* went on to the root.
C28_Witness ==
    /\ kind = "AVLTree"
    /\ ret.op = "AVLTree::insert"
    /\ Len(ret.val) = 2
    /\ ret.val[1].op # ret.val[2].op
    /\ heap[ret.val[2].x].m_parent # NIL
    /\ heap[ret.val[2].x].m_parent # m_root

----------------------------------------------------------------------------
\* rebalance(x) on any tree, from any of its nodes.  rebalance is private
\* and insert calls it on the new leaf only; here it is applied once to each
\* node of each tree that iter_insert, which AVLTree inherits, can build.

ShapeVectors == UNION {[1..n -> ShapeKeys] : n \in 1..MaxNodes}

InitRebalance ==
    \E tree_vec \in ShapeVectors :
        \E t \in {BinarySearchTree(Tree(NIL, <<>>), tree_vec)} :
            /\ m_root = t.m_root
            /\ heap = t.heap
            /\ status = "running"
            /\ ret = Call("main", NIL, "none", NIL)
            /\ kind = "AVLTree"
            /\ inserted = Len(tree_vec)
            /\ removed = 0
            /\ NoQueue

\* val keeps where the loop stood when it ended or was cut, the nodes it
\* visited and the rotations it performed.
AVL_rebalance(x) ==
    /\ status = "running"
    /\ ret.op = "main"
    /\ \E w \in {rebalance_walk(Tree(m_root, heap), x, <<>>)} :
        /\ m_root' = w.tree.m_root
        /\ heap' = w.tree.heap
        /\ ret' = Call("rebalance", x, "none",
                       [x |-> w.x,
                        walk |-> [i \in 1..Len(w.walk) |-> w.walk[i].x],
                        rot |-> w.tree.rot])
    /\ UNCHANGED <<status, kind, inserted, removed, queue_vars>>

NextRebalance ==
    \/ \E x \in 1..Len(heap) : AVL_rebalance(x)

SpecRebalance == InitRebalance /\ [][NextRebalance]_vars

\* C29: rebalance(x) ends for every tree and every node x of it: the loop
\* leaves through the absent parent of the root, the node visited last is
\* the root, and the passes are at most the nodes on the way up from x plus
\* the rotations performed.
C29_RebalanceTerminates ==
    ret.op = "rebalance" =>
        LET n == Len(ret.val.walk)
        IN  /\ ret.val.x = NIL
            /\ n < MaxWalk
            /\ ret.val.walk[1] = ret.arg
            /\ ret.val.walk[n] = m_root
            /\ heap[m_root].m_parent = NIL
            /\ n <= Len(heap) + Len(ret.val.rot)

\* A walk that came back to a node it had visited, a rotation having put
\* that node above the visited one.
C29_Witness ==
    /\ ret.op = "rebalance"
    /\ ret.val.x = NIL
    /\ Len(ret.val.rot) >= 2
    /\ \E i, j \in 1..Len(ret.val.walk) :
           i < j /\ ret.val.walk[i] = ret.val.walk[j]

----------------------------------------------------------------------------
\* The node detached by remove

\* Every link of a node of the tree leads to a node of the tree or nowhere.
LinksStayInTree(h, root) ==
    \A n \in subtree(h, root) :
        /\ h[n].m_left \in subtree(h, root) \cup {NIL}
        /\ h[n].m_right \in subtree(h, root) \cup {NIL}
        /\ h[n].m_parent \in subtree(h, root) \cup {NIL}

----------------------------------------------------------------------------
\* The visits of a traversal

TraversalNames ==
    {"pre_order_traversal", "in_order_traversal", "post_order_traversal",
     "pre_order_iter_traversal", "in_order_iter_traversal",
     "post_order_iter_traversal_twostacks",
     "post_order_iter_traversal_onestack", "breadth_first_traversal"}

\* What the traversal of that name hands to its callback on the tree at
\* node.
TraversalOf(name, h, node) ==
    CASE name = "pre_order_traversal" -> pre_order(h, node)
      [] name = "in_order_traversal" -> in_order(h, node)
      [] name = "post_order_traversal" -> post_order(h, node)
      [] name = "pre_order_iter_traversal" -> pre_order_iter(h, node)
      [] name = "in_order_iter_traversal" -> in_order_iter(h, node)
      [] name = "post_order_iter_traversal_twostacks" ->
             post_order_iter_twostacks(h, node)
      [] name = "post_order_iter_traversal_onestack" ->
             post_order_iter_onestack(h, node)
      [] name = "breadth_first_traversal" -> bfs(h, node)

\* The heap with every node's key replaced by the node itself: a traversal
\* follows links only, so on this heap it reports the nodes it visits.
Tagged(h) == [n \in 1..Len(h) |-> [h[n] EXCEPT !.m_key = n]]

\* The sequence of nodes names every node of the tree at root exactly once.
EachNodeOnce(nodes, h, root) ==
    /\ KeySet(nodes) = subtree(h, root)
    /\ \A i, j \in 1..Len(nodes) : nodes[i] = nodes[j] => i = j

\* C31: each of the eight traversals returns (the evaluation of its loop or
\* recursion ends), has called the visitor exactly once for each node of the
\* tree, size() calls in all and none on an empty tree, each call with the
\* key of the node visited, and leaves the root, every node and every link
\* as they were.
C31_TraversalVisitsEachNodeOnce ==
    [][(ret'.op \in TraversalNames) =>
        \A nodes \in {TraversalOf(ret'.op, Tagged(heap), m_root)} :
            /\ EachNodeOnce(nodes, heap, m_root)
            /\ Len(ret'.val) = size(heap, m_root)
            /\ Len(nodes) = Len(ret'.val)
            /\ \A i \in 1..Len(nodes) : ret'.val[i] = heap[nodes[i]].m_key
            /\ (m_root = NIL => ret'.val = <<>>)
            /\ m_root' = m_root
            /\ heap' = heap
            /\ status' = "running"]_vars

\* A breadth-first traversal has run on a tree of at least four nodes, one
\* of them with two children, two of them with the same key.
C31_Witness ==
    /\ ret.op = "breadth_first_traversal"
    /\ Len(ret.val) >= 4
    /\ \E n \in subtree(heap, m_root) : TwoChildren(heap, n)
    /\ \E i, j \in 1..Len(ret.val) : i # j /\ ret.val[i] = ret.val[j]

----------------------------------------------------------------------------
\* The extreme keys

\* C32: on every non-empty tree reached by insertions, AVL insertions and
\* successful removals, minimum() returns the least key stored in the tree
\* and maximum() the greatest, without an error.
C32_ExtremesAreLeastAndGreatest ==
    (status = "running" /\ m_root # NIL) =>
        /\ ret.op = "minimum" =>
               ret.err = "none" /\ ret.val = Least(KeySet(InOrderKeys))
        /\ ret.op = "maximum" =>
               ret.err = "none" /\ ret.val = Greatest(KeySet(InOrderKeys))

\* minimum() has returned on an AVL tree of height two, after a removal, and
\* the least key is held neither by the root nor by a child of the root.
C32_Witness ==
    /\ kind = "AVLTree"
    /\ ret.op = "minimum"
    /\ ret.err = "none"
    /\ removed >= 1
    /\ heap[m_root].m_left # NIL
    /\ heap[heap[m_root].m_left].m_left # NIL
    /\ ret.val < heap[heap[m_root].m_left].m_key

----------------------------------------------------------------------------
\* Construction of the empty tree

\* C33: constructed from the empty sequence, or from a sequence whose first
\* element is absent, whatever follows it, the tree is empty: no root, no
\* node made, nothing absent dereferenced, and every traversal of it visits
\* nothing.
C33_AbsentRootYieldsEmptyTree ==
    (Constructed /\ (ret.arg = <<>> \/ ret.arg[1] = nullopt)) =>
        /\ m_root = NIL
        /\ heap = <<>>
        /\ status = "running"
        /\ size(heap, m_root) = 0
        /\ bfs(heap, m_root) = <<>>

\* A tree has been constructed from a layout whose first element is absent
\* and whose second and third are keys.
C33_Witness ==
    /\ Constructed
    /\ Len(ret.arg) >= 3
    /\ ret.arg[1] = nullopt
    /\ ret.arg[2] # nullopt
    /\ ret.arg[3] # nullopt
    /\ m_root = NIL

----------------------------------------------------------------------------
\* What a removal takes out of the in-order sequence

\* The sequence without its i-th element.
Without(s, i) == SubSeq(s, 1, i - 1) \o SubSeq(s, i + 1, Len(s))

\* C34: a remove(k) that returned normally has deleted exactly one
\* occurrence of k: the in-order sequence of nodes after the call is the one
\* before the call with a single node of key k taken out, so the in-order
\* key sequence has lost one k and kept every other key, further copies of k
\* included, in the same relative order.
C34_RemoveTakesOutOneOccurrence ==
    [][RemoveReturned =>
        \A before \in {in_order(Tagged(heap), m_root)} :
            \E i \in 1..Len(before) :
                /\ heap[before[i]].m_key = ret'.arg
                /\ in_order(Tagged(heap'), m_root') = Without(before, i)
                /\ in_order(heap', m_root') = Without(InOrderKeys, i)]_vars

\* A removal of a node with two children has returned and the tree still
\* holds a copy of the removed key, next to other keys.
C34_Witness ==
    /\ ret.op = "remove" /\ ret.err = "none" /\ status = "running"
    /\ ret.val.m_left # NIL /\ ret.val.m_right # NIL
    /\ Occurrences(InOrderKeys, ret.arg) >= 1
    /\ KeySet(InOrderKeys) # {ret.arg}

----------------------------------------------------------------------------
\* The rotations of one AVL insertion

\* The heights of the two subtrees of x differ by at most one.
BalancedAt(h, x) ==
    LET d == height(h, h[x].m_left) - height(h, h[x].m_right)
    IN  d >= -1 /\ d <= 1

\* C35: when the tree is AVL-balanced before AVLTree::insert, the walk of
\* rebalance rotates at no more than one of the nodes it visits: the call
\* performs no rotation, one rotation, or the two opposite rotations of a
\* double rotation; every node visited after the rotating pass is balanced
\* when it is visited and its pass changes nothing, and the tree is balanced
\* when the call returns.
C35_OneRotatingPassPerInsert ==
    [][(AvlInsertReturned /\ Balanced(heap, m_root)) =>
        \A t1 \in {_iter_insert(Tree(m_root, heap), ret'.arg)} :
        \A w \in {rebalance_walk(t1, Len(t1.heap), <<>>)} :
        LET n == Len(w.walk)
            rotating ==
                {i \in 1..n : w.walk[i].after.rot # w.walk[i].before.rot}
        IN  /\ w.x = NIL
            /\ w.tree.rot = ret'.val
            /\ Cardinality(rotating) <= 1
            /\ Len(ret'.val) <= 2
            /\ Len(ret'.val) = 2 =>
                   /\ ret'.val[1].op # ret'.val[2].op
                   /\ w.walk[1].before.heap[ret'.val[1].x].m_parent
                          = ret'.val[2].x
            /\ \A i \in rotating : \A j \in (i + 1)..n :
                   /\ BalancedAt(w.walk[j].before.heap, w.walk[j].x)
                   /\ w.walk[j].after = w.walk[j].before
            /\ Balanced(heap', m_root')]_vars

\* An insertion into a tree grown by insertions alone has performed a single
\* rotation at a node below the root and gone on to the root.
C35_Witness ==
    /\ kind = "AVLTree"
    /\ ret.op = "AVLTree::insert"
    /\ removed = 0
    /\ Len(ret.val) = 1
    /\ heap[ret.val[1].x].m_parent # NIL
    /\ heap[heap[ret.val[1].x].m_parent].m_parent # NIL

----------------------------------------------------------------------------
\* left_rotate(x) and right_rotate(x) on any tree, at any of its nodes.  The
\* rotations are private and rebalance calls them at unbalanced nodes only;
\* here each is applied once to each node of each shape iter_insert can
\* build.  A rotation reads no key, so distinct keys reach every case.

DistinctVectors ==
    {v \in ShapeVectors : \A i, j \in 1..Len(v) : v[i] = v[j] => i = j}

InitRotate ==
    \E tree_vec \in DistinctVectors :
        \E t \in {BinarySearchTree(Tree(NIL, <<>>), tree_vec)} :
            /\ m_root = t.m_root
            /\ heap = t.heap
            /\ status = "running"
            /\ ret = Call("main", NIL, "none", NIL)
            /\ kind = "AVLTree"
            /\ inserted = Len(tree_vec)
            /\ removed = 0
            /\ NoQueue

AVL_left_rotate(x) ==
    /\ status = "running"
    /\ ret.op = "main"
    /\ \E t \in {left_rotate(Tree(m_root, heap), x)} :
        /\ m_root' = t.m_root
        /\ heap' = t.heap
    /\ ret' = Call("left_rotate", x, "none", NIL)
    /\ UNCHANGED <<status, kind, inserted, removed, queue_vars>>

AVL_right_rotate(x) ==
    /\ status = "running"
    /\ ret.op = "main"
    /\ \E t \in {right_rotate(Tree(m_root, heap), x)} :
        /\ m_root' = t.m_root
        /\ heap' = t.heap
    /\ ret' = Call("right_rotate", x, "none", NIL)
    /\ UNCHANGED <<status, kind, inserted, removed, queue_vars>>

NextRotate ==
    \/ \E x \in 1..Len(heap) : AVL_left_rotate(x)
    \/ \E x \in 1..Len(heap) : AVL_right_rotate(x)

SpecRotate == InitRotate /\ [][NextRotate]_vars

\* C36: left_rotate(x) and right_rotate(x) leave the in-order sequence of
\* nodes as it was, and with it the in-order key sequence and the set of
\* nodes reachable from the root; when x has no right child (for
\* left_rotate) or no left child (for right_rotate) the call changes
\* nothing at all.
C36_RotationKeepsInOrder ==
    [][(ret'.op \in {"left_rotate", "right_rotate"}) =>
        \A child \in {IF ret'.op = "left_rotate"
                       THEN heap[ret'.arg].m_right
                       ELSE heap[ret'.arg].m_left} :
            /\ in_order(Tagged(heap'), m_root')
                   = in_order(Tagged(heap), m_root)
            /\ in_order(heap', m_root') = InOrderKeys
            /\ subtree(heap', m_root') = subtree(heap, m_root)
            /\ child = NIL => (heap' = heap /\ m_root' = m_root)
            /\ child # NIL => heap'[ret'.arg].m_parent = child]_vars

\* right_rotate has run at a node below the root whose left child had a
\* right subtree: the node now hangs under its former left child and holds
\* that subtree on its left.
C36_Witness ==
    /\ ret.op = "right_rotate"
    /\ heap[ret.arg].m_parent # NIL
    /\ heap[heap[ret.arg].m_parent].m_right = ret.arg
    /\ heap[heap[ret.arg].m_parent].m_parent # NIL
    /\ heap[ret.arg].m_left # NIL

----------------------------------------------------------------------------
\* ArrayQueue: a ring of capacity = cap + 1 slots, indexed from 0, with one
\* slot kept spare; f is the index of the front element, r of the rear one.

\* The indeterminate value of a slot that new T[cap + 1] has made and nobody
\* has written.
Uninit == 0

ArrayQueue(c) ==
    [arr |-> [i \in 0..c |-> Uninit], capacity |-> c + 1, f |-> 1, r |-> 0]

max_len(q) == q.capacity - 1

ArrayQueue_size(q) == (q.r + q.capacity - q.f + 1) % q.capacity

empty(q) == ArrayQueue_size(q) = 0

full(q) == (q.r + 2) % q.capacity = q.f

clear(q) == [q EXCEPT !.r = 0, !.f = 1]

\* arr[i] as a read sees it: some element, any one when the slot was never
\* written or lies outside the array.
Slot(q, i) ==
    IF i \in DOMAIN q.arr /\ q.arr[i] # Uninit THEN {q.arr[i]} ELSE Keys

\* The outcomes of front(): the exception and the element returned.
front(q) ==
    IF empty(q) THEN {[err |-> "Empty", val |-> NIL]}
    ELSE {[err |-> "none", val |-> v] : v \in Slot(q, q.f)}

enqueue(q, x) ==
    IF full(q) THEN [q |-> q, err |-> "Overflow"]
    ELSE LET rear == (q.r + 1) % q.capacity
         IN  [q |-> [q EXCEPT !.r = rear, !.arr[rear] = x], err |-> "none"]

\* The outcomes of dequeue(): the object, the exception and the element the
\* returned reference leads to at the return.
dequeue(q) ==
    IF empty(q) THEN {[q |-> q, err |-> "Underflow", val |-> NIL]}
    ELSE {[q |-> [q EXCEPT !.f = (q.f + 1) % q.capacity],
           err |-> "none", val |-> v] : v \in Slot(q, q.f)}

InitQueue ==
    /\ m_root = NIL
    /\ heap = <<>>
    /\ status = "running"
    /\ kind = "ArrayQueue"
    /\ inserted = 0
    /\ removed = 0
    /\ cap \in 0..MaxCap
    /\ array_queue = ArrayQueue(cap)
    /\ enqueued = <<>>
    /\ dequeued = <<>>
    /\ ret = Call("ArrayQueue", cap, "none", NIL)

ArrayQueue_enqueue(x) ==
    /\ full(array_queue) \/ Len(enqueued) < MaxEnqueued
    /\ \E o \in {enqueue(array_queue, x)} :
        /\ array_queue' = o.q
        /\ ret' = Call("enqueue", x, o.err, NIL)
        /\ enqueued' = IF o.err = "none" THEN Append(enqueued, x)
                       ELSE enqueued
    /\ UNCHANGED <<m_root, heap, status, kind, inserted, removed>>
    /\ UNCHANGED <<cap, dequeued>>

ArrayQueue_dequeue ==
    /\ \E o \in dequeue(array_queue) :
        /\ array_queue' = o.q
        /\ ret' = Call("dequeue", NIL, o.err, o.val)
        /\ dequeued' = IF o.err = "none" THEN Append(dequeued, o.val)
                       ELSE dequeued
    /\ UNCHANGED <<m_root, heap, status, kind, inserted, removed>>
    /\ UNCHANGED <<cap, enqueued>>

ArrayQueue_clear ==
    /\ array_queue' = clear(array_queue)
    /\ ret' = Call("clear", NIL, "none", NIL)
    /\ enqueued' = <<>>
    /\ dequeued' = <<>>
    /\ UNCHANGED <<m_root, heap, status, kind, inserted, removed>>
    /\ UNCHANGED cap

ArrayQueue_front ==
    /\ \E o \in front(array_queue) :
        ret' = Call("front", NIL, o.err, o.val)
    /\ UNCHANGED <<m_root, heap, status, kind, inserted, removed>>
    /\ UNCHANGED queue_vars

NextQueue ==
    \/ \E x \in Keys : ArrayQueue_enqueue(x)
    \/ ArrayQueue_dequeue
    \/ ArrayQueue_clear
    \/ ArrayQueue_front

SpecQueue == InitQueue /\ [][NextQueue]_vars

\* The elements enqueued and not yet dequeued, oldest first.
Waiting == SubSeq(enqueued, Len(dequeued) + 1, Len(enqueued))

\* C37: for an ArrayQueue constructed with any capacity cap >= 0, after any
\* sequence of enqueue, dequeue and clear calls, 0 <= size() <= max_len() =
\* cap, full() holds exactly when size() = cap and empty() exactly when
\* size() = 0; enqueue on a full queue fails with Overflow and dequeue on an
\* empty queue fails with Underflow, each leaving f and r as they were.
C37_QueueBoundsAndFailures ==
    /\ [](/\ 0 <= ArrayQueue_size(array_queue)
          /\ ArrayQueue_size(array_queue) <= max_len(array_queue)
          /\ max_len(array_queue) = cap
          /\ full(array_queue) <=> ArrayQueue_size(array_queue) = cap
          /\ empty(array_queue) <=> ArrayQueue_size(array_queue) = 0)
    /\ [][/\ (ret'.op = "enqueue" /\ ArrayQueue_size(array_queue) = cap) =>
                /\ ret'.err = "Overflow"
                /\ array_queue'.f = array_queue.f
                /\ array_queue'.r = array_queue.r
          /\ (ret'.op = "dequeue" /\ ArrayQueue_size(array_queue) = 0) =>
                /\ ret'.err = "Underflow"
                /\ array_queue'.f = array_queue.f
                /\ array_queue'.r = array_queue.r]_vars

\* C38: ArrayQueue is first-in first-out across the wrap-around of f and r:
\* the k-th dequeue that returned has returned the k-th element enqueued,
\* and while an element enqueued is not yet dequeued front() returns the
\* oldest such element.
C38_FirstInFirstOut ==
    /\ dequeued = SubSeq(enqueued, 1, Len(dequeued))
    /\ Waiting # <<>> =>
           front(array_queue) = {[err |-> "none", val |-> Waiting[1]]}

====
